---- MODULE Spec2Model ----
(***************************************************************************)
(* DocLens: the document-processing lifecycle.                             *)
(*                                                                         *)
(* Backend: DocumentController (upload, manual process, delete),           *)
(* ProcessingService (queueDocumentProcessing, processDocument,            *)
(* fallbackProcessing, cleanupTempFiles) and DocumentService (the record   *)
(* writes).  Frontend: pollDocumentStatus and the useProcessingStatus hook.*)
(*                                                                         *)
(* Node.js runs every handler to its next await without interleaving, so   *)
(* one action is one stretch of code between two awaits: the awaited       *)
(* collaborator call lands (succeeds or throws) and the continuation runs  *)
(* up to the next await.                                                   *)
(***************************************************************************)
EXTENDS Integers, FiniteSets, Sequences, TLC

\* All state of the backend is keyed by document id (Firestore document id,
\* Map key, blob path); the ids are uuids chosen by uploadDocument.
Ids == {"d1"}

\* Number of manual POST /:id/process requests the environment issues per id.
MaxManual == 2

\* maxAttempts of pollDocumentStatus (the hook passes 120; the function takes
\* any value).
maxAttempts == 2

\* Number of pollDocumentStatus calls the hook makes (startPolling calls that
\* pass the pollRef guard).
MaxStarts == 2

\* Number of direct calls of DocumentService.createDocument per id, beside
\* the one uploadDocument makes.
MaxCreates == 1

\* Number of GET /:id/results requests per id.
MaxResults == 1

Null == "null"
NoProgress == -1
NoDoc == [exists |-> FALSE]

\* Error messages (error.message) of the collaborators.
StoreError == "store error"
FileError == "file error"
NullDocError == "document is null"
UploadError == "upload error"
OcrError == "ocr error"

\* producer is history: the collaborator whose analysis the result is.
NoResults ==
  [present |-> FALSE, producer |-> Null, processingMethod |-> Null,
   documentMetadata |-> FALSE]

VARIABLES
  db,               \* Firestore collection 'documents': id -> record or NoDoc
  processingQueue,  \* keys of ProcessingService.processingQueue
  tempFile,         \* the local temporary file of the id exists
  storage,          \* a blob documents/<id>/<fileName> exists in the bucket
  pc,               \* position of the background task of the id
  analysisResults,  \* local variable analysisResults of processDocument
  error,            \* the error caught by processDocument's catch block
  pendingWrites,    \* un-awaited 'failed' writes in flight: {[run, message]}
  unhandled,        \* a promise of the id was rejected with no handler
  upload,           \* position of the uploadDocument handler
  manual,           \* position of the manual processDocument handler
  snapshot,         \* the document read by the manual handler
  response,         \* last HTTP status answered by the manual handler (0: none)
  caller,           \* who awaits queueDocumentProcessing: "upload" or "manual"
  manualCount,      \* manual requests issued so far
  del,              \* position of the deleteDocument call
  deleted,          \* what the last deleteDocument returned
  runs,             \* history: queue entries inserted so far
  terminalWrites,   \* history: terminal status writes applied for the last run
  duplicate,        \* history: a second submission arrived during the last run
  resubmitted,      \* history: the last run was started from status failed
  inFlight,         \* history: tasks started by queueDocumentProcessing, not yet settled
  usedFallback,     \* history: the last run entered the inner catch (OCR fallback)
  cleaned,          \* history: the last run has executed cleanupTempFiles
  storeReliable,    \* environment: the writes to the Status Store do not throw
  creates,          \* direct createDocument calls made so far
  createReturn,     \* the last direct createDocument call: its outcome and its input
  resultsReq,       \* the getResults handler of the id: position and answer
  pollRef,          \* useProcessingStatus: pollRef.current
  hookState,        \* useProcessingStatus: state {status, isPolling, error}
  loops             \* the pollDocumentStatus calls made by the hook, in order

backendVars == <<db, processingQueue, tempFile, storage, pc, analysisResults, error,
                 pendingWrites, unhandled, upload, manual, snapshot, response,
                 caller, manualCount, del, deleted, runs, terminalWrites, duplicate,
                 resubmitted, inFlight, usedFallback, cleaned, storeReliable,
                 creates, createReturn, resultsReq>>

pollVars == <<pollRef, hookState, loops>>

pathVars == <<usedFallback, cleaned>>

serviceVars == <<creates, createReturn, resultsReq>>

vars == <<backendVars, pollVars>>

----------------------------------------------------------------------------
(* DocumentService: the record writes, as functions on one record.         *)

\* The documentData of uploadDocument (lines 24-32): processingStatus
\* pending, no processingProgress.
UploadData == [processingStatus |-> "pending", processingProgress |-> NoProgress]

\* The documentData a caller may pass to createDocument: the upload's, or
\* one that carries other values in the two fields the function overrides.
DocumentInputs ==
  {UploadData, [processingStatus |-> "completed", processingProgress |-> 50]}

\* createDocument, line 29: the caller's fields are copied into the record.
Spread(documentData) ==
  [exists |-> TRUE, processingStatus |-> documentData.processingStatus,
   processingProgress |-> documentData.processingProgress,
   processingError |-> Null, results |-> NoResults, gsUrl |-> FALSE]

\* A createDocument that stores the caller's fields as they are.
createDocumentNoOverride(documentData) == Spread(documentData)

\* createDocument: the caller's fields with processingStatus and
\* processingProgress overridden; the record is written with set, which
\* replaces whatever is stored under the id.
createDocument(documentData) ==
  [Spread(documentData) EXCEPT !.processingStatus = "pending", !.processingProgress = 0]

\* An updateProcessingStatus without the forcing of lines 111-114.
updateProcessingStatusUnforced(doc, status, progress, err) ==
  LET u1 == [doc EXCEPT !.processingStatus = status]
      u2 == IF progress # NoProgress THEN [u1 EXCEPT !.processingProgress = progress] ELSE u1
  IN  IF err # Null THEN [u2 EXCEPT !.processingError = err] ELSE u2

\* An updateProcessingStatus that writes a null progress as 0.
updateProcessingStatusNullAsZero(doc, status, progress, err) ==
  LET u1 == [doc EXCEPT !.processingStatus = status]
      u2 == [u1 EXCEPT !.processingProgress = IF progress # NoProgress THEN progress ELSE 0]
      u3 == IF err # Null THEN [u2 EXCEPT !.processingError = err] ELSE u2
  IN  IF status = "completed" THEN [u3 EXCEPT !.processingProgress = 100] ELSE u3

\* updateProcessingStatus: a partial update; the progress is written when it
\* is not null, the error when it is truthy, and 'completed' forces 100.
updateProcessingStatus(doc, status, progress, err) ==
  LET u1 == [doc EXCEPT !.processingStatus = status]
      u2 == IF progress # NoProgress THEN [u1 EXCEPT !.processingProgress = progress] ELSE u1
      u3 == IF err # Null THEN [u2 EXCEPT !.processingError = err] ELSE u2
  IN  IF status = "completed" THEN [u3 EXCEPT !.processingProgress = 100] ELSE u3

\* storeAnalysisResults: results, status completed and progress 100 in one update.
storeAnalysisResults(doc, analysisData) ==
  [doc EXCEPT !.results = analysisData, !.processingStatus = "completed",
              !.processingProgress = 100]

\* What geminiService.analyzeDocument returns.
GeminiAnalysis ==
  [present |-> TRUE, producer |-> "gemini", processingMethod |-> Null,
   documentMetadata |-> FALSE]

\* A fallback analysis that produces nothing to store.
performBasicAnalysisEmpty ==
  [present |-> FALSE, producer |-> "basic", processingMethod |-> Null,
   documentMetadata |-> FALSE]

\* What performBasicAnalysis returns.
performBasicAnalysis ==
  [present |-> TRUE, producer |-> "basic", processingMethod |-> Null,
   documentMetadata |-> FALSE]

\* postProcessResults: defaults filled, processingMethod and documentMetadata attached.
postProcessResults(results) ==
  [results EXCEPT !.processingMethod = "gemini_ai", !.documentMetadata = TRUE]

IsTerminal(status) == status \in {"completed", "failed"}

\* getProcessingStatus: the projection of the record; stageMap has entries
\* for pending, processing, completed and error, any other status is its own
\* stage.
stageMap(status) ==
  CASE status = "pending" -> "uploaded"
    [] status = "processing" -> "analyzing"
    [] status = "completed" -> "completed"
    [] status = "error" -> "error"
    [] OTHER -> status

getProcessingStatus(doc) ==
  [status |-> doc.processingStatus, progress |-> doc.processingProgress,
   stage |-> stageMap(doc.processingStatus)]

\* The hook's state.status before the first snapshot.
NoStatus == [status |-> Null, progress |-> 0, stage |-> Null]

\* pollDocumentStatus line 159: the statuses that end the polling.
PollingComplete(status) == status.status = "completed" \/ status.status = "error"

----------------------------------------------------------------------------
\* The getResults handler before any request: no answer yet.  code is the
\* HTTP status (0: none), body the status field of a 202 answer or the
\* error of a 400 answer, payload the results answered, thrown the error
\* that led to the answer.
NoAnswer ==
  [at |-> "idle", count |-> 0, code |-> 0, body |-> Null, payload |-> NoResults,
   thrown |-> Null]

\* The state after construction, the environment left open.
Constructed ==
  /\ db = [d \in Ids |-> NoDoc]
  /\ processingQueue = {}
  /\ tempFile = [d \in Ids |-> FALSE]
  /\ storage = [d \in Ids |-> FALSE]
  /\ pc = [d \in Ids |-> "idle"]
  /\ analysisResults = [d \in Ids |-> NoResults]
  /\ error = [d \in Ids |-> Null]
  /\ pendingWrites = [d \in Ids |-> {}]
  /\ unhandled = [d \in Ids |-> FALSE]
  /\ upload = [d \in Ids |-> "none"]
  /\ manual = [d \in Ids |-> "idle"]
  /\ snapshot = [d \in Ids |-> NoDoc]
  /\ response = [d \in Ids |-> 0]
  /\ caller = [d \in Ids |-> Null]
  /\ manualCount = [d \in Ids |-> 0]
  /\ del = [d \in Ids |-> "idle"]
  /\ deleted = [d \in Ids |-> "none"]
  /\ runs = [d \in Ids |-> 0]
  /\ terminalWrites = [d \in Ids |-> 0]
  /\ duplicate = [d \in Ids |-> FALSE]
  /\ resubmitted = [d \in Ids |-> FALSE]
  /\ inFlight = [d \in Ids |-> 0]
  /\ usedFallback = [d \in Ids |-> FALSE]
  /\ cleaned = [d \in Ids |-> FALSE]
  /\ creates = [d \in Ids |-> 0]
  /\ createReturn = [d \in Ids |-> [outcome |-> "none", documentData |-> UploadData]]
  /\ resultsReq = [d \in Ids |-> NoAnswer]
  /\ pollRef = FALSE
  /\ hookState = [status |-> NoStatus, isPolling |-> FALSE, error |-> Null]
  /\ loops = << >>

\* Any write to the Status Store may throw.
Init == Constructed /\ storeReliable = FALSE

\* The writes to the Status Store succeed.
InitReliable == Constructed /\ storeReliable = TRUE

----------------------------------------------------------------------------
(* ProcessingService.queueDocumentProcessing up to its first await: the    *)
(* has-check, the insert and the call of updateProcessingStatus run        *)
(* without interleaving.  fromFailed tells the history whether the caller  *)
(* read status failed.                                                     *)
\* A queueDocumentProcessing without the has-check of lines 20-23.
queueDocumentProcessingNoGuard(d, who, fromFailed) ==
  /\ processingQueue' = processingQueue \cup {d}
  /\ pc' = [pc EXCEPT ![d] = "update0"]
  /\ caller' = [caller EXCEPT ![d] = who]
  /\ runs' = [runs EXCEPT ![d] = @ + 1]
  /\ terminalWrites' = [terminalWrites EXCEPT ![d] = 0]
  /\ duplicate' = [duplicate EXCEPT ![d] = FALSE]
  /\ resubmitted' = [resubmitted EXCEPT ![d] = fromFailed]
  /\ inFlight' = [inFlight EXCEPT ![d] = @ + 1]
  /\ usedFallback' = [usedFallback EXCEPT ![d] = FALSE]
  /\ cleaned' = [cleaned EXCEPT ![d] = FALSE]

queueDocumentProcessing(d, who, fromFailed) ==
  IF d \in processingQueue
    THEN /\ duplicate' = [duplicate EXCEPT ![d] = (pc[d] # "idle") \/ @]
         /\ UNCHANGED <<processingQueue, pc, caller, runs, terminalWrites, resubmitted,
                        inFlight, usedFallback, cleaned>>
    ELSE /\ processingQueue' = processingQueue \cup {d}
         /\ pc' = [pc EXCEPT ![d] = "update0"]
         /\ caller' = [caller EXCEPT ![d] = who]
         /\ runs' = [runs EXCEPT ![d] = @ + 1]
         /\ terminalWrites' = [terminalWrites EXCEPT ![d] = 0]
         /\ duplicate' = [duplicate EXCEPT ![d] = FALSE]
         /\ resubmitted' = [resubmitted EXCEPT ![d] = fromFailed]
         /\ inFlight' = [inFlight EXCEPT ![d] = @ + 1]
         /\ usedFallback' = [usedFallback EXCEPT ![d] = FALSE]
         /\ cleaned' = [cleaned EXCEPT ![d] = FALSE]

(* DocumentController.uploadDocument: multer has written the temporary     *)
(* file; createDocument's set lands or throws.                             *)
UploadCreate(d) ==
  /\ upload[d] = "none"
  /\ \E ok \in BOOLEAN :
       IF ok
         THEN /\ db' = [db EXCEPT ![d] = createDocument(UploadData)]
              /\ tempFile' = [tempFile EXCEPT ![d] = TRUE]
              /\ upload' = [upload EXCEPT ![d] = "created"]
         ELSE /\ upload' = [upload EXCEPT ![d] = "failed"]
              /\ UNCHANGED <<db, tempFile>>
  /\ UNCHANGED <<pollVars, storeReliable, serviceVars, inFlight, pathVars, processingQueue, storage, pc, analysisResults, error, pendingWrites,
                 unhandled, manual, snapshot, response, caller, manualCount, del,
                 deleted, runs, terminalWrites, duplicate, resubmitted>>

(* uploadDocument after createDocument resolved: queueDocumentProcessing   *)
(* is called and not awaited, then 201 is answered.                        *)
UploadQueue(d) ==
  /\ upload[d] = "created"
  /\ upload' = [upload EXCEPT ![d] = "done"]
  /\ queueDocumentProcessing(d, "upload", FALSE)
  /\ UNCHANGED <<pollVars, storeReliable, serviceVars, db, tempFile, storage, analysisResults, error, pendingWrites,
                 unhandled, manual, snapshot, response, manualCount, del, deleted>>


----------------------------------------------------------------------------
(* The background task of one id: queueDocumentProcessing after its first  *)
(* await, then processDocument with its catch block, then the .catch and   *)
(* .finally handlers chained on it.                                        *)

handlerVars == <<upload, manual, snapshot, manualCount, del, deleted>>
historyVars == <<runs, duplicate, resubmitted>>

\* An awaited update of the record succeeds only on an existing document
\* (docRef.update rejects with NOT_FOUND otherwise) and may throw anyway.
CanWrite(d, ok) == (ok \/ storeReliable) /\ db[d].exists

\* An exception reaches the catch block of processDocument.
Caught(d, msg) ==
  /\ pc' = [pc EXCEPT ![d] = "catch"]
  /\ error' = [error EXCEPT ![d] = msg]

\* One more terminal status write was applied for the last run.
Terminal(d) == terminalWrites' = [terminalWrites EXCEPT ![d] = @ + 1]

\* The promise of processDocument settles.  Rejected: the .catch handler
\* calls updateProcessingStatus(failed) without awaiting it.  Then the
\* .finally handler deletes the queue entry.
Settle(d, rejected, msg) ==
  /\ pendingWrites' = [pendingWrites EXCEPT ![d] =
        IF rejected THEN @ \cup {[run |-> runs[d], message |-> msg]} ELSE @]
  /\ processingQueue' = processingQueue \ {d}
  /\ inFlight' = [inFlight EXCEPT ![d] = @ - 1]
  /\ pc' = [pc EXCEPT ![d] = "idle"]
  /\ analysisResults' = [analysisResults EXCEPT ![d] = NoResults]
  /\ error' = [error EXCEPT ![d] = Null]

\* A queueDocumentProcessing that calls processDocument without awaiting
\* the write of line 31.
QueueUpdate0Unawaited(d) ==
  /\ pc[d] = "update0"
  /\ pc' = [pc EXCEPT ![d] = "update10"]
  /\ IF caller[d] = "manual"
       THEN /\ response' = [response EXCEPT ![d] = 200]
            /\ manual' = [manual EXCEPT ![d] = "idle"]
       ELSE UNCHANGED <<response, manual>>
  /\ UNCHANGED <<pollVars, storeReliable, serviceVars, db, inFlight, processingQueue, tempFile,
                 storage, analysisResults, error, pendingWrites, unhandled, upload,
                 snapshot, caller, manualCount, del, deleted, terminalWrites,
                 historyVars, pathVars>>

\* queueDocumentProcessing line 31: the write of (processing, 0) lands.  On
\* success processDocument is called and the caller's await resolves; on a
\* throw the catch of line 43 rethrows to the caller and nothing removes
\* the queue entry.
QueueUpdate0(d) ==
  /\ pc[d] = "update0"
  /\ \E ok \in BOOLEAN :
       IF CanWrite(d, ok)
         THEN /\ db' = [db EXCEPT ![d] = updateProcessingStatus(@, "processing", 0, Null)]
              /\ pc' = [pc EXCEPT ![d] = "update10"]
              /\ UNCHANGED inFlight
              /\ IF caller[d] = "manual"
                   THEN /\ response' = [response EXCEPT ![d] = 200]
                        /\ manual' = [manual EXCEPT ![d] = "idle"]
                   ELSE UNCHANGED <<response, manual>>
         ELSE /\ pc' = [pc EXCEPT ![d] = "idle"]
              /\ inFlight' = [inFlight EXCEPT ![d] = @ - 1]
              /\ IF caller[d] = "manual"
                   THEN /\ response' = [response EXCEPT ![d] = 500]
                        /\ manual' = [manual EXCEPT ![d] = "idle"]
                   ELSE UNCHANGED <<response, manual>>
              /\ UNCHANGED db
  /\ UNCHANGED <<pollVars, storeReliable, serviceVars, processingQueue, tempFile, storage, analysisResults, error,
                 pendingWrites, unhandled, upload, snapshot, caller, manualCount,
                 del, deleted, terminalWrites, historyVars, pathVars>>

\* A progress checkpoint of processDocument: updateProcessingStatus
\* (processing, progress) lands, the task goes on to 'next'.
Checkpoint(d, at, progress, next) ==
  /\ pc[d] = at
  /\ \E ok \in BOOLEAN :
       IF CanWrite(d, ok)
         THEN /\ db' = [db EXCEPT ![d] = updateProcessingStatus(@, "processing", progress, Null)]
              /\ pc' = [pc EXCEPT ![d] = next]
              /\ UNCHANGED error
         ELSE /\ Caught(d, StoreError)
              /\ UNCHANGED db
  /\ UNCHANGED <<pollVars, storeReliable, serviceVars, processingQueue, tempFile, storage, analysisResults, pendingWrites,
                 unhandled, response, caller, terminalWrites, handlerVars, historyVars, inFlight, pathVars>>

\* Step 1 (line 57).
Update10(d) == Checkpoint(d, "update10", 10, "readFile")

\* Step 2 (line 60): fs.readFile of the temporary file.
ReadFile(d) ==
  /\ pc[d] = "readFile"
  /\ \E ok \in BOOLEAN :
       IF ok /\ tempFile[d]
         THEN pc' = [pc EXCEPT ![d] = "getDocument"] /\ UNCHANGED error
         ELSE Caught(d, FileError)
  /\ UNCHANGED <<pollVars, storeReliable, serviceVars, db, processingQueue, tempFile, storage, analysisResults, pendingWrites,
                 unhandled, response, caller, terminalWrites, handlerVars, historyVars, inFlight, pathVars>>

\* Step 2 (lines 61-62): getDocument; a null document makes document.fileType throw.
GetDocument(d) ==
  /\ pc[d] = "getDocument"
  /\ \E ok \in BOOLEAN :
       IF ~ok THEN Caught(d, StoreError)
       ELSE IF ~db[d].exists THEN Caught(d, NullDocError)
       ELSE pc' = [pc EXCEPT ![d] = "update20"] /\ UNCHANGED error
  /\ UNCHANGED <<pollVars, storeReliable, serviceVars, db, processingQueue, tempFile, storage, analysisResults, pendingWrites,
                 unhandled, response, caller, terminalWrites, handlerVars, historyVars, inFlight, pathVars>>

\* Step 2 (line 64).
Update20(d) == Checkpoint(d, "update20", 20, "uploadToStorage")

\* Step 3, storeFile: uploadToStorage.
UploadToStorage(d) ==
  /\ pc[d] = "uploadToStorage"
  /\ \E ok \in BOOLEAN :
       IF ok
         THEN /\ storage' = [storage EXCEPT ![d] = TRUE]
              /\ pc' = [pc EXCEPT ![d] = "updateGsUrl"]
              /\ UNCHANGED error
         ELSE /\ Caught(d, UploadError)
              /\ UNCHANGED storage
  /\ UNCHANGED <<pollVars, storeReliable, serviceVars, db, processingQueue, tempFile, analysisResults, pendingWrites,
                 unhandled, response, caller, terminalWrites, handlerVars, historyVars, inFlight, pathVars>>

\* Step 3, storeFile: updateDocument({gsUrl}).
UpdateGsUrl(d) ==
  /\ pc[d] = "updateGsUrl"
  /\ \E ok \in BOOLEAN :
       IF CanWrite(d, ok)
         THEN /\ db' = [db EXCEPT ![d].gsUrl = TRUE]
              /\ pc' = [pc EXCEPT ![d] = "update30"]
              /\ UNCHANGED error
         ELSE /\ Caught(d, StoreError)
              /\ UNCHANGED db
  /\ UNCHANGED <<pollVars, storeReliable, serviceVars, processingQueue, tempFile, storage, analysisResults, pendingWrites,
                 unhandled, response, caller, terminalWrites, handlerVars, historyVars, inFlight, pathVars>>

\* Step 3 (line 68).
Update30(d) == Checkpoint(d, "update30", 30, "analyzeDocument")

\* Step 4 (line 74): geminiService.analyzeDocument; a throw is caught by the
\* inner catch, which starts the OCR fallback.
AnalyzeDocument(d) ==
  /\ pc[d] = "analyzeDocument"
  /\ \E ok \in BOOLEAN :
       IF ok
         THEN /\ analysisResults' = [analysisResults EXCEPT ![d] = GeminiAnalysis]
              /\ pc' = [pc EXCEPT ![d] = "update70"]
              /\ UNCHANGED usedFallback
         ELSE /\ pc' = [pc EXCEPT ![d] = "extractText"]
              /\ usedFallback' = [usedFallback EXCEPT ![d] = TRUE]
              /\ UNCHANGED analysisResults
  /\ UNCHANGED <<pollVars, storeReliable, serviceVars, db, processingQueue, tempFile, storage, error, pendingWrites,
                 unhandled, response, caller, terminalWrites, handlerVars, historyVars, inFlight, cleaned>>

\* Step 4 (line 75): the checkpoint 70 is inside the inner try, so a throw of
\* this write also starts the fallback, with analysisResults already set.
Update70(d) ==
  /\ pc[d] = "update70"
  /\ \E ok \in BOOLEAN :
       IF CanWrite(d, ok)
         THEN /\ db' = [db EXCEPT ![d] = updateProcessingStatus(@, "processing", 70, Null)]
              /\ pc' = [pc EXCEPT ![d] = "storeResults"]
              /\ UNCHANGED usedFallback
         ELSE /\ pc' = [pc EXCEPT ![d] = "extractText"]
              /\ usedFallback' = [usedFallback EXCEPT ![d] = TRUE]
              /\ UNCHANGED db
  /\ UNCHANGED <<pollVars, storeReliable, serviceVars, processingQueue, tempFile, storage, analysisResults, error, pendingWrites,
                 unhandled, response, caller, terminalWrites, handlerVars, historyVars, inFlight, cleaned>>


\* fallbackProcessing (line 121): ocrService.extractText.
ExtractText(d) ==
  /\ pc[d] = "extractText"
  /\ \E ok \in BOOLEAN :
       IF ok
         THEN pc' = [pc EXCEPT ![d] = "storeOCRResults"] /\ UNCHANGED error
         ELSE Caught(d, OcrError)
  /\ UNCHANGED <<pollVars, storeReliable, serviceVars, db, processingQueue, tempFile, storage, analysisResults, pendingWrites,
                 unhandled, response, caller, terminalWrites, handlerVars, historyVars, inFlight, pathVars>>

\* fallbackProcessing (line 122): storeOCRResults writes only ocrResults.
StoreOCRResults(d) ==
  /\ pc[d] = "storeOCRResults"
  /\ \E ok \in BOOLEAN :
       IF CanWrite(d, ok)
         THEN pc' = [pc EXCEPT ![d] = "storeBasic"] /\ UNCHANGED error
         ELSE Caught(d, StoreError)
  /\ UNCHANGED <<pollVars, storeReliable, serviceVars, db, processingQueue, tempFile, storage, analysisResults, pendingWrites,
                 unhandled, response, caller, terminalWrites, handlerVars, historyVars, inFlight, pathVars>>

\* fallbackProcessing (lines 125-128): performBasicAnalysis, then
\* storeAnalysisResults of the basic analysis.
StoreBasic(d) ==
  /\ pc[d] = "storeBasic"
  /\ \E ok \in BOOLEAN :
       IF CanWrite(d, ok)
         THEN /\ db' = [db EXCEPT ![d] = storeAnalysisResults(@, performBasicAnalysis)]
              /\ pc' = [pc EXCEPT ![d] = "update70fallback"]
              /\ Terminal(d)
              /\ UNCHANGED error
         ELSE /\ Caught(d, StoreError)
              /\ UNCHANGED <<db, terminalWrites>>
  /\ UNCHANGED <<pollVars, storeReliable, serviceVars, processingQueue, tempFile, storage, analysisResults, pendingWrites,
                 unhandled, response, caller, handlerVars, historyVars, inFlight, pathVars>>

\* Line 81: the checkpoint 70 after the fallback; then step 5 is skipped
\* when analysisResults is still null.
Update70Fallback(d) ==
  Checkpoint(d, "update70fallback", 70,
             IF analysisResults[d].present THEN "storeResults" ELSE "cleanup")

\* Step 5 (lines 85-88): postProcessResults, then storeAnalysisResults.
StoreResults(d) ==
  /\ pc[d] = "storeResults"
  /\ \E ok \in BOOLEAN :
       IF CanWrite(d, ok)
         THEN /\ db' = [db EXCEPT ![d] =
                          storeAnalysisResults(@, postProcessResults(analysisResults[d]))]
              /\ pc' = [pc EXCEPT ![d] = "cleanup"]
              /\ Terminal(d)
              /\ UNCHANGED error
         ELSE /\ Caught(d, StoreError)
              /\ UNCHANGED <<db, terminalWrites>>
  /\ UNCHANGED <<pollVars, storeReliable, serviceVars, processingQueue, tempFile, storage, analysisResults, pendingWrites,
                 unhandled, response, caller, handlerVars, historyVars, inFlight, pathVars>>

\* cleanupTempFiles: fs.unlink removes the file, or fails and is only logged.
cleanupTempFiles(d) ==
  /\ \E unlinked \in BOOLEAN :
       tempFile' = [tempFile EXCEPT ![d] = IF unlinked THEN FALSE ELSE @]
  /\ cleaned' = [cleaned EXCEPT ![d] = TRUE]

\* Step 6 (line 91).
Cleanup(d) ==
  /\ pc[d] = "cleanup"
  /\ cleanupTempFiles(d)
  /\ pc' = [pc EXCEPT ![d] = "updateCompleted"]
  /\ UNCHANGED <<pollVars, storeReliable, serviceVars, db, processingQueue, storage, analysisResults, error, pendingWrites,
                 unhandled, response, caller, terminalWrites, handlerVars, historyVars, inFlight, usedFallback>>

\* A step 7 that resolves the task without the write of line 94.
UpdateCompletedSkipped(d) ==
  /\ pc[d] = "updateCompleted"
  /\ Settle(d, FALSE, Null)
  /\ UNCHANGED <<db, terminalWrites>>
  /\ UNCHANGED <<pollVars, storeReliable, serviceVars, tempFile, storage, unhandled, response, caller,
                 handlerVars, historyVars, pathVars>>

\* Step 7 (line 94): updateProcessingStatus(completed, 100); the task
\* resolves and the .finally handler removes the queue entry.
UpdateCompleted(d) ==
  /\ pc[d] = "updateCompleted"
  /\ \E ok \in BOOLEAN :
       IF CanWrite(d, ok)
         THEN /\ db' = [db EXCEPT ![d] = updateProcessingStatus(@, "completed", 100, Null)]
              /\ Terminal(d)
              /\ Settle(d, FALSE, Null)
         ELSE /\ Caught(d, StoreError)
              /\ UNCHANGED <<db, terminalWrites, processingQueue, analysisResults,
                             pendingWrites, inFlight>>
  /\ UNCHANGED <<pollVars, storeReliable, serviceVars, tempFile, storage, unhandled, response, caller, handlerVars, historyVars, pathVars>>

\* The catch block (line 100): updateProcessingStatus(failed, null,
\* error.message).  If this write throws, the catch block is left at once
\* (no cleanup) and the task rejects with the error of the write.
CatchUpdate(d) ==
  /\ pc[d] = "catch"
  /\ \E ok \in BOOLEAN :
       IF CanWrite(d, ok)
         THEN /\ db' = [db EXCEPT ![d] = updateProcessingStatus(@, "failed", NoProgress, error[d])]
              /\ pc' = [pc EXCEPT ![d] = "catchCleanup"]
              /\ Terminal(d)
              /\ UNCHANGED <<processingQueue, analysisResults, error, pendingWrites, inFlight>>
         ELSE /\ Settle(d, TRUE, StoreError)
              /\ UNCHANGED <<db, terminalWrites>>
  /\ UNCHANGED <<pollVars, storeReliable, serviceVars, tempFile, storage, unhandled, response, caller, handlerVars, historyVars, pathVars>>

\* The catch block (lines 103-109): cleanup, then the error is rethrown; the
\* task rejects.
CatchCleanup(d) ==
  /\ pc[d] = "catchCleanup"
  /\ cleanupTempFiles(d)
  /\ Settle(d, TRUE, error[d])
  /\ UNCHANGED <<pollVars, storeReliable, serviceVars, db, storage, unhandled, response, caller, terminalWrites,
                 handlerVars, historyVars, usedFallback>>

\* The un-awaited updateProcessingStatus(failed) of the .catch handler
\* (line 37) lands; if it rejects, nothing handles the rejection.
PendingWriteLands(d) ==
  \E w \in pendingWrites[d] :
    /\ pendingWrites' = [pendingWrites EXCEPT ![d] = @ \ {w}]
    /\ \E ok \in BOOLEAN :
         IF CanWrite(d, ok)
           THEN /\ db' = [db EXCEPT ![d] = updateProcessingStatus(@, "failed", NoProgress, w.message)]
                /\ terminalWrites' = [terminalWrites EXCEPT ![d] =
                                        IF w.run = runs[d] THEN @ + 1 ELSE @]
                /\ UNCHANGED unhandled
           ELSE /\ unhandled' = [unhandled EXCEPT ![d] = TRUE]
                /\ UNCHANGED <<db, terminalWrites>>
    /\ UNCHANGED <<pollVars, storeReliable, serviceVars, processingQueue, tempFile, storage, pc, analysisResults, error,
                   response, caller, handlerVars, historyVars, inFlight, pathVars>>

----------------------------------------------------------------------------
(* DocumentController.processDocument: the manual POST /:id/process.       *)

\* A controller that forgets the in-progress check of lines 133-135.
ManualRejectsOnlyCompleted(status) == status = "completed"

\* The statuses the controller rejects (lines 129-135).
ManualRejects(status) == status \in {"completed", "processing"}

\* The HTTP status of the rejection: ApiError(400, ...).
RejectionStatus == 400

\* The HTTP status of ConflictError (utils/errors.js).
ConflictStatus == 409

\* Line 123: getDocument reads the record.
ManualRead(d) ==
  /\ manual[d] = "idle"
  /\ manualCount[d] < MaxManual
  /\ manualCount' = [manualCount EXCEPT ![d] = @ + 1]
  /\ snapshot' = [snapshot EXCEPT ![d] = db[d]]
  /\ manual' = [manual EXCEPT ![d] = "decide"]
  /\ response' = [response EXCEPT ![d] = 0]
  /\ UNCHANGED <<pollVars, storeReliable, serviceVars, inFlight, pathVars, db, processingQueue, tempFile, storage, pc, analysisResults, error,
                 pendingWrites, unhandled, upload, caller, del, deleted, runs,
                 terminalWrites, duplicate, resubmitted>>

\* Lines 125-147: 404 for no document, the rejection for completed and
\* processing, else queueDocumentProcessing is called and awaited; when the
\* id is already queued it returns at once and 200 is answered.
ManualDecide(d) ==
  /\ manual[d] = "decide"
  /\ IF ~snapshot[d].exists
       THEN /\ response' = [response EXCEPT ![d] = 404]
            /\ manual' = [manual EXCEPT ![d] = "idle"]
            /\ UNCHANGED <<processingQueue, pc, caller, runs, terminalWrites,
                           duplicate, resubmitted, inFlight, pathVars>>
     ELSE IF ManualRejects(snapshot[d].processingStatus)
       THEN /\ response' = [response EXCEPT ![d] = RejectionStatus]
            /\ manual' = [manual EXCEPT ![d] = "idle"]
            /\ duplicate' = [duplicate EXCEPT ![d] = (pc[d] # "idle") \/ @]
            /\ UNCHANGED <<processingQueue, pc, caller, runs, terminalWrites, resubmitted,
                           inFlight, pathVars>>
     ELSE /\ queueDocumentProcessing(d, "manual", snapshot[d].processingStatus = "failed")
          /\ IF d \in processingQueue
               THEN /\ response' = [response EXCEPT ![d] = 200]
                    /\ manual' = [manual EXCEPT ![d] = "idle"]
               ELSE /\ manual' = [manual EXCEPT ![d] = "queued"]
                    /\ UNCHANGED response
  /\ snapshot' = [snapshot EXCEPT ![d] = NoDoc]
  /\ UNCHANGED <<pollVars, storeReliable, serviceVars, db, tempFile, storage, analysisResults, error, pendingWrites,
                 unhandled, upload, manualCount, del, deleted>>

----------------------------------------------------------------------------
(* DocumentService.deleteDocument, called by DELETE /:id.                  *)

\* Lines 283-289: getDocument; no document returns false; a document with a
\* gsUrl has its blob deleted first.
DeleteRead(d) ==
  /\ del[d] = "idle"
  /\ upload[d] # "none"
  /\ IF ~db[d].exists
       THEN /\ deleted' = [deleted EXCEPT ![d] = "false"]
            /\ UNCHANGED del
       ELSE /\ del' = [del EXCEPT ![d] = IF db[d].gsUrl THEN "deleteFromStorage" ELSE "deleteDoc"]
            /\ deleted' = [deleted EXCEPT ![d] = "none"]
  /\ UNCHANGED <<pollVars, storeReliable, serviceVars, inFlight, pathVars, db, processingQueue, tempFile, storage, pc, analysisResults, error,
                 pendingWrites, unhandled, upload, manual, snapshot, response, caller,
                 manualCount, runs, terminalWrites, duplicate, resubmitted>>

\* Lines 291-295: deleteFromStorage removes the blob; its failure is only logged.
DeleteFromStorage(d) ==
  /\ del[d] = "deleteFromStorage"
  /\ \E ok \in BOOLEAN :
       storage' = [storage EXCEPT ![d] = IF ok THEN FALSE ELSE @]
  /\ del' = [del EXCEPT ![d] = "deleteDoc"]
  /\ UNCHANGED <<pollVars, storeReliable, serviceVars, inFlight, pathVars, db, processingQueue, tempFile, pc, analysisResults, error,
                 pendingWrites, unhandled, upload, manual, snapshot, response, caller,
                 manualCount, deleted, runs, terminalWrites, duplicate, resubmitted>>

\* Lines 299-303: the document is deleted and true is returned; a store
\* error is rethrown.
DeleteDoc(d) ==
  /\ del[d] = "deleteDoc"
  /\ \E ok \in BOOLEAN :
       IF ok
         THEN /\ db' = [db EXCEPT ![d] = NoDoc]
              /\ deleted' = [deleted EXCEPT ![d] = "true"]
         ELSE /\ deleted' = [deleted EXCEPT ![d] = "error"]
              /\ UNCHANGED db
  /\ del' = [del EXCEPT ![d] = "idle"]
  /\ UNCHANGED <<pollVars, storeReliable, serviceVars, inFlight, pathVars, processingQueue, tempFile, storage, pc, analysisResults, error,
                 pendingWrites, unhandled, upload, manual, snapshot, response, caller,
                 manualCount, runs, terminalWrites, duplicate, resubmitted>>

----------------------------------------------------------------------------
(* Frontend: pollDocumentStatus and the useProcessingStatus hook (the      *)
(* variant with the pollRef guard).  The hook polls the uploaded document. *)

HookDoc == CHOOSE d \in Ids : TRUE

Timeout == "Document processing timeout"
RequestFailed == "Request failed"

Active(l) == loops[l].at \in {"query", "timer"}

\* startPolling (lines 226-240): the pollRef guard, then pollDocumentStatus
\* is called and its first poll() issues the first status query.
StartPolling ==
  /\ upload[HookDoc] = "done"
  /\ ~pollRef
  /\ Len(loops) < MaxStarts
  /\ pollRef' = TRUE
  /\ hookState' = [hookState EXCEPT !.isPolling = TRUE, !.error = Null]
  /\ loops' = Append(loops, [at |-> "query", attempts |-> 1, updates |-> 0,
                             cancelled |-> FALSE, afterCancel |-> FALSE,
                             sawFailed |-> FALSE, result |-> NoStatus])
  /\ UNCHANGED backendVars

\* stopPolling (lines 253-259): pollRef is reset and the state says not
\* polling; timeoutRef is never assigned, so no timer is cleared.  The
\* history marks the loops that were running as cancelled.
StopPolling ==
  /\ Len(loops) > 0
  /\ pollRef \/ hookState.isPolling \/ \E l \in DOMAIN loops : Active(l) /\ ~loops[l].cancelled
  /\ pollRef' = FALSE
  /\ hookState' = [hookState EXCEPT !.isPolling = FALSE]
  /\ loops' = [l \in DOMAIN loops |->
                 IF Active(l) THEN [loops[l] EXCEPT !.cancelled = TRUE] ELSE loops[l]]
  /\ UNCHANGED backendVars

\* A hook whose startPolling has no catch block: a rejected
\* pollDocumentStatus leaves the state and pollRef as they are.
PollResponseUncaught(l) ==
  /\ l \in DOMAIN loops
  /\ loops[l].at = "query"
  /\ loops' = [loops EXCEPT ![l].at = "error"]
  /\ UNCHANGED <<backendVars, pollRef, hookState>>

\* poll() after await getDocumentStatus (lines 151-178), with what the
\* hook's awaiting startPolling does when the promise settles (lines
\* 241-250).
PollResponse(l) ==
  /\ l \in DOMAIN loops
  /\ loops[l].at = "query"
  /\ \E ok \in BOOLEAN :
       IF ok /\ db[HookDoc].exists
         THEN LET status == getProcessingStatus(db[HookDoc])
                  seen == [loops[l] EXCEPT !.updates = @ + 1,
                                           !.afterCancel = @ \/ loops[l].cancelled,
                                           !.sawFailed = @ \/ status.status = "failed"]
              IN  IF PollingComplete(status)
                    THEN /\ loops' = [loops EXCEPT ![l] = [seen EXCEPT !.at = "resolved", !.result = status]]
                         /\ hookState' = [status |-> status, isPolling |-> FALSE, error |-> Null]
                         /\ pollRef' = FALSE
                  ELSE IF loops[l].attempts >= maxAttempts
                    THEN /\ loops' = [loops EXCEPT ![l] = [seen EXCEPT !.at = "timeout"]]
                         /\ hookState' = [status |-> status, isPolling |-> FALSE, error |-> Timeout]
                         /\ pollRef' = FALSE
                  ELSE /\ loops' = [loops EXCEPT ![l] = [seen EXCEPT !.at = "timer"]]
                       /\ hookState' = [hookState EXCEPT !.status = status, !.error = Null]
                       /\ UNCHANGED pollRef
         ELSE /\ loops' = [loops EXCEPT ![l].at = "error"]
              /\ hookState' = [hookState EXCEPT !.isPolling = FALSE, !.error = RequestFailed]
              /\ pollRef' = FALSE
  /\ UNCHANGED backendVars

\* setTimeout(poll, interval) fires (line 174): the next attempt.
PollTimer(l) ==
  /\ l \in DOMAIN loops
  /\ loops[l].at = "timer"
  /\ loops' = [loops EXCEPT ![l].at = "query", ![l].attempts = @ + 1]
  /\ UNCHANGED <<backendVars, pollRef, hookState>>

----------------------------------------------------------------------------
Next ==
  \E d \in Ids :
    \/ UploadCreate(d)
    \/ UploadQueue(d)
    \/ QueueUpdate0(d)
    \/ Update10(d)
    \/ ReadFile(d)
    \/ GetDocument(d)
    \/ Update20(d)
    \/ UploadToStorage(d)
    \/ UpdateGsUrl(d)
    \/ Update30(d)
    \/ AnalyzeDocument(d)
    \/ Update70(d)
    \/ ExtractText(d)
    \/ StoreOCRResults(d)
    \/ StoreBasic(d)
    \/ Update70Fallback(d)
    \/ StoreResults(d)
    \/ Cleanup(d)
    \/ UpdateCompleted(d)
    \/ CatchUpdate(d)
    \/ CatchCleanup(d)
    \/ PendingWriteLands(d)
    \/ ManualRead(d)
    \/ ManualDecide(d)

Spec == Init /\ [][Next]_vars

\* The same with DELETE /:id requests.
NextDelete ==
  \/ Next
  \/ \E d \in Ids :
       \/ DeleteRead(d)
       \/ DeleteFromStorage(d)
       \/ DeleteDoc(d)

SpecDelete == Init /\ [][NextDelete]_vars

\* DocumentService.createDocument called directly, for any id and with any
\* documentData: docRef.set lands or throws.
CreateDocument(d) ==
  /\ creates[d] < MaxCreates
  /\ creates' = [creates EXCEPT ![d] = @ + 1]
  /\ \E documentData \in DocumentInputs, ok \in BOOLEAN :
       IF ok \/ storeReliable
         THEN /\ db' = [db EXCEPT ![d] = createDocument(documentData)]
              /\ createReturn' = [createReturn EXCEPT ![d] =
                                    [outcome |-> "ok", documentData |-> documentData]]
         ELSE /\ createReturn' = [createReturn EXCEPT ![d] =
                                    [outcome |-> "error", documentData |-> documentData]]
              /\ UNCHANGED db
  /\ UNCHANGED <<pollVars, storeReliable, resultsReq, inFlight, pathVars, processingQueue, tempFile,
                 storage, pc, analysisResults, error, pendingWrites, unhandled, upload,
                 manual, snapshot, response, caller, manualCount, del, deleted, runs,
                 terminalWrites, duplicate, resubmitted>>

\* The backend with direct createDocument calls.
NextCreate ==
  \/ Next
  \/ \E d \in Ids : CreateDocument(d)

SpecCreate == Init /\ [][NextCreate]_vars

----------------------------------------------------------------------------
(* DocumentController.getResults: GET /:id/results.                        *)

NotFoundError == "Document not found"
NotCompletedError == "Document processing not completed"

\* The answer of the handler: an ApiError carries its status code, any
\* other error is answered 500 by errorHandler.
Answer(r, code, body, payload, thrown) ==
  [r EXCEPT !.at = "idle", !.code = code, !.body = body, !.payload = payload,
            !.thrown = thrown]

\* Lines 159-181: getDocument, then 404, 202 for pending and processing,
\* 400 for failed; any other status goes on to getAnalysisResults.
ResultsRead(d) ==
  /\ resultsReq[d].at = "idle"
  /\ resultsReq[d].count < MaxResults
  /\ upload[d] # "none"
  /\ \E ok \in BOOLEAN :
       LET r == [resultsReq[d] EXCEPT !.count = @ + 1]
           document == db[d]
       IN  resultsReq' = [resultsReq EXCEPT ![d] =
             IF ~ok THEN Answer(r, 500, Null, NoResults, StoreError)
             ELSE IF ~document.exists THEN Answer(r, 404, Null, NoResults, NotFoundError)
             ELSE IF document.processingStatus \in {"pending", "processing"}
               THEN Answer(r, 202, document.processingStatus, NoResults, Null)
             ELSE IF document.processingStatus = "failed"
               THEN Answer(r, 400, document.processingError, NoResults, Null)
             ELSE [r EXCEPT !.at = "getAnalysisResults"]]
  /\ UNCHANGED <<pollVars, storeReliable, creates, createReturn, inFlight, pathVars, db,
                 processingQueue, tempFile, storage, pc, analysisResults, error,
                 pendingWrites, unhandled, upload, manual, snapshot, response, caller,
                 manualCount, del, deleted, runs, terminalWrites, duplicate, resubmitted>>

\* Line 183 and getAnalysisResults (part_005 lines 208-229): the document is
\* read again; a missing document and a status other than completed throw
\* a plain Error.
ResultsAnswer(d) ==
  /\ resultsReq[d].at = "getAnalysisResults"
  /\ \E ok \in BOOLEAN :
       LET r == resultsReq[d]
           document == db[d]
       IN  resultsReq' = [resultsReq EXCEPT ![d] =
             IF ~ok THEN Answer(r, 500, Null, NoResults, StoreError)
             ELSE IF ~document.exists THEN Answer(r, 500, Null, NoResults, NotFoundError)
             ELSE IF document.processingStatus # "completed"
               THEN Answer(r, 500, Null, NoResults, NotCompletedError)
             ELSE Answer(r, 200, document.processingStatus, document.results, Null)]
  /\ UNCHANGED <<pollVars, storeReliable, creates, createReturn, inFlight, pathVars, db,
                 processingQueue, tempFile, storage, pc, analysisResults, error,
                 pendingWrites, unhandled, upload, manual, snapshot, response, caller,
                 manualCount, del, deleted, runs, terminalWrites, duplicate, resubmitted>>

\* The steps of the background task of one id: every one is the return or
\* the throw of an awaited call, or the landing of the un-awaited write.
Run(d) ==
  \/ QueueUpdate0(d)
  \/ Update10(d)
  \/ ReadFile(d)
  \/ GetDocument(d)
  \/ Update20(d)
  \/ UploadToStorage(d)
  \/ UpdateGsUrl(d)
  \/ Update30(d)
  \/ AnalyzeDocument(d)
  \/ Update70(d)
  \/ ExtractText(d)
  \/ StoreOCRResults(d)
  \/ StoreBasic(d)
  \/ Update70Fallback(d)
  \/ StoreResults(d)
  \/ Cleanup(d)
  \/ UpdateCompleted(d)
  \/ CatchUpdate(d)
  \/ CatchCleanup(d)
  \/ PendingWriteLands(d)

\* Every awaited call eventually returns or throws: the task and the
\* handlers that wait for a call do not stop while they can go on.
Fairness ==
  \A d \in Ids :
    /\ WF_vars(Run(d))
    /\ WF_vars(UploadQueue(d))
    /\ WF_vars(ManualDecide(d))

SpecFair == Spec /\ Fairness

\* One upload with its background run and GET /:id/results requests.
NextResults ==
  \E d \in Ids :
    \/ UploadCreate(d)
    \/ UploadQueue(d)
    \/ Run(d)
    \/ ResultsRead(d)
    \/ ResultsAnswer(d)

SpecResults == Init /\ [][NextResults]_vars

\* Awaited calls return and Status Store writes succeed.
SpecLive == InitReliable /\ [][Next]_vars /\ Fairness


\* One upload with its background run, watched by the hook: no manual
\* request and no delete.
NextPoll ==
  \/ \E d \in Ids :
       \/ UploadCreate(d)
       \/ UploadQueue(d)
       \/ QueueUpdate0(d)
       \/ Update10(d)
       \/ ReadFile(d)
       \/ GetDocument(d)
       \/ Update20(d)
       \/ UploadToStorage(d)
       \/ UpdateGsUrl(d)
       \/ Update30(d)
       \/ AnalyzeDocument(d)
       \/ Update70(d)
       \/ ExtractText(d)
       \/ StoreOCRResults(d)
       \/ StoreBasic(d)
       \/ Update70Fallback(d)
       \/ StoreResults(d)
       \/ Cleanup(d)
       \/ UpdateCompleted(d)
       \/ CatchUpdate(d)
       \/ CatchCleanup(d)
       \/ PendingWriteLands(d)
  \/ StartPolling
  \/ StopPolling
  \/ \E l \in 1..MaxStarts : PollResponse(l) \/ PollTimer(l)

SpecPoll == Init /\ [][NextPoll]_vars


----------------------------------------------------------------------------
(* The claims.                                                             *)

Status(d) == db[d].processingStatus

\* The step of the manual handler in which it answers or queues.
ManualDecides(d) == manual[d] = "decide" /\ manual'[d] # "decide"

\* C1: for every id, the stored record holds an analysis result if and only
\* if its status is completed.
C1_ResultIffCompleted ==
  \A d \in Ids :
    db[d].exists => (db[d].results.present <=> Status(d) = "completed")

\* C2: for every id, the stored record holds an error message if and only if
\* its status is failed.
C2_ErrorIffFailed ==
  \A d \in Ids :
    db[d].exists => (db[d].processingError # Null <=> Status(d) = "failed")

\* C3: completed is terminal: once the stored status is completed, no later
\* write of the orchestrator and no manual request changes the status or
\* the stored result.
C3_CompletedTerminal ==
  [][\A d \in Ids :
       (db[d].exists /\ Status(d) = "completed" /\ db'[d].exists)
         => (db'[d].processingStatus = "completed" /\ db'[d].results = db[d].results)]_vars

\* C4: a poll that has been shown a snapshot with status failed has stopped
\* and resolved; it does not go on polling and does not time out.
C4_FailedStopsPoll ==
  \A l \in DOMAIN loops : loops[l].sawFailed => loops[l].at = "resolved"

\* C5: after stopPolling, onUpdate is never invoked again for the poll that
\* was running.
C5_NoUpdateAfterCancel ==
  \A l \in DOMAIN loops : ~loops[l].afterCancel

\* C6: for one hook at most one polling loop is active at any time.
C6_AtMostOneLoop ==
  Cardinality({l \in DOMAIN loops : Active(l)}) <= 1

\* C7: every queue entry is eventually removed: an entry is in the queue
\* only while the task that will remove it is still in flight.
C7_QueueEntryRemoved ==
  \A d \in Ids : d \in processingQueue => pc[d] # "idle"

\* C8: after a run has ended with status failed, a manual re-submission is
\* accepted and re-runs the pipeline.
C8_FailedResubmitReruns ==
  [][\A d \in Ids :
       (ManualDecides(d) /\ snapshot[d].exists
          /\ snapshot[d].processingStatus = "failed" /\ pc[d] = "idle")
         => pc'[d] = "update0"]_vars

\* C9 as stated: a manual request for a document read as processing or
\* completed is rejected with a Conflict error and changes nothing.
C9_RejectedWithConflict ==
  [][\A d \in Ids :
       (ManualDecides(d) /\ snapshot[d].exists
          /\ snapshot[d].processingStatus \in {"processing", "completed"})
         => (response'[d] = ConflictStatus /\ processingQueue' = processingQueue
               /\ pc' = pc /\ db' = db /\ runs' = runs)]_vars

\* C9 as amended: a manual request for a document read as processing or
\* completed is rejected with status 400, starts no task, inserts no queue
\* entry and leaves the record unchanged.
C9_RejectedUnchanged ==
  [][\A d \in Ids :
       (ManualDecides(d) /\ snapshot[d].exists
          /\ snapshot[d].processingStatus \in {"processing", "completed"})
         => (response'[d] = RejectionStatus /\ manual'[d] = "idle"
               /\ processingQueue' = processingQueue
               /\ pc' = pc /\ db' = db /\ runs' = runs)]_vars

\* C9 witness: a request was rejected while the record is processing or
\* completed.
C9_Witness ==
  \E d \in Ids :
    /\ response[d] = RejectionStatus
    /\ manual[d] = "idle"
    /\ db[d].exists
    /\ Status(d) \in {"processing", "completed"}

\* C10: when a second submission arrives while the first is in flight, the
\* record receives one terminal write for that attempt and no second one.
C10_OneTerminalWrite ==
  \A d \in Ids : duplicate[d] => terminalWrites[d] <= 1

\* The step in which a handler calls queueDocumentProcessing: uploadDocument
\* after createDocument, or the manual handler when it rejects nothing.
QueueCalled(d) ==
  \/ upload[d] = "created" /\ upload'[d] = "done"
  \/ /\ ManualDecides(d)
     /\ snapshot[d].exists
     /\ ~ManualRejects(snapshot[d].processingStatus)

\* C11: a call of queueDocumentProcessing for an id that already has a queue
\* entry returns without error (the manual handler answers 200), starts no
\* second task and writes nothing to the record or to the queue.
C11_SoftNoOp ==
  [][\A d \in Ids :
       (QueueCalled(d) /\ d \in processingQueue)
         => (/\ db' = db
             /\ processingQueue' = processingQueue
             /\ pc' = pc
             /\ inFlight' = inFlight
             /\ runs' = runs
             /\ pendingWrites' = pendingWrites
             /\ (ManualDecides(d) => response'[d] = 200 /\ manual'[d] = "idle"))]_vars

\* C11 witness: the only entry ever inserted is the upload's, and a manual
\* request that was not rejected has been answered 200: its call of
\* queueDocumentProcessing found the entry.
C11_Witness ==
  \E d \in Ids :
    /\ caller[d] = "upload"
    /\ runs[d] = 1
    /\ d \in processingQueue
    /\ response[d] = 200

\* Two processDocument tasks of one id are in flight.
TwoTasks == \E d \in Ids : inFlight[d] >= 2

\* C12 as stated: two requests for one id can both pass the guard, so the
\* execution reaches a state with two tasks in flight for the id.
C12_TwoTasksReached == <>TwoTasks

\* C12 as amended: the has-check and the insert run without an await between
\* them, so at most one task is in flight for an id in every reachable state.
C12_AtMostOneTask == \A d \in Ids : inFlight[d] <= 1

\* C12 witness: a second request has called queueDocumentProcessing while the
\* task of the first is in flight, and one task is in flight.
C12_Witness ==
  \E d \in Ids :
    /\ caller[d] = "upload"
    /\ runs[d] = 1
    /\ response[d] = 200
    /\ pc[d] \notin {"idle", "update0"}
    /\ inFlight[d] = 1

\* C13: within one run (from the write that follows the first, processing 0,
\* to the last) no write lowers the stored progress.
C13_ProgressNonDecreasing ==
  [][\A d \in Ids :
       (pc[d] \notin {"idle", "update0"} /\ db[d].exists /\ db'[d].exists)
         => db'[d].processingProgress >= db[d].processingProgress]_vars

\* C14: no rejected promise of the background task, or of a write it
\* starts, is left without a handler.
C14_NoUnhandledRejection == \A d \in Ids : ~unhandled[d]

\* The step in which the processDocument task of the id settles.
RunSettles(d) == inFlight'[d] < inFlight[d] /\ pc[d] # "update0"

\* C15: on every path of a run, cleanupTempFiles has been executed when the
\* run settles.
C15_CleanupBeforeSettle ==
  [][\A d \in Ids : RunSettles(d) => cleaned'[d]]_vars

\* C16: a run that entered the OCR fallback and in which no later step threw
\* (it resolves from step 7) ends with status completed, progress 100 and a
\* result on the record.
C16_FallbackCompletes ==
  [][\A d \in Ids :
       (usedFallback[d] /\ pc[d] = "updateCompleted" /\ RunSettles(d))
         => (/\ db'[d].exists
             /\ db'[d].processingStatus = "completed"
             /\ db'[d].processingProgress = 100
             /\ db'[d].results.present)]_vars

\* C16 witness: a run through the fallback has resolved; the record is
\* completed with the basic analysis as its result.
C16_Witness ==
  \E d \in Ids :
    /\ usedFallback[d]
    /\ pc[d] = "idle"
    /\ d \notin processingQueue
    /\ terminalWrites[d] = 2
    /\ db[d].exists
    /\ db[d].processingStatus = "completed"
    /\ db[d].processingProgress = 100
    /\ db[d].results.producer = "basic"

\* C17: whenever a record is completed, its stored result has passed
\* postProcessResults: it carries the document metadata.
C17_CompletedPostProcessed ==
  \A d \in Ids :
    (db[d].exists /\ Status(d) = "completed")
      => (db[d].results.present /\ db[d].results.documentMetadata)

\* C18: when awaited calls return and Status Store writes succeed, every
\* document with a task in flight, or with status processing, eventually
\* has status completed or failed.
C18_Terminates ==
  \A d \in Ids :
    (inFlight[d] > 0 \/ (db[d].exists /\ Status(d) = "processing"))
      ~> (db[d].exists /\ IsTerminal(Status(d)))

\* C18 witness: with reliable writes a run in which a collaborator threw
\* has settled and the record is failed.
C18_Witness ==
  \E d \in Ids :
    /\ storeReliable
    /\ runs[d] >= 1
    /\ inFlight[d] = 0
    /\ pendingWrites[d] = {}
    /\ db[d].exists
    /\ Status(d) = "failed"

\* The status queries of a loop that have been answered with a snapshot.
Answered(l) ==
  IF loops[l].at \in {"query", "error"} THEN loops[l].attempts - 1 ELSE loops[l].attempts

\* C19: onUpdate is invoked once per answered status query, and the poll
\* resolves with the first snapshot whose status is terminal (completed or
\* failed), after which it issues nothing.
C19_OnUpdatePerQuery ==
  \A l \in DOMAIN loops :
    /\ loops[l].updates = Answered(l)
    /\ loops[l].at = "resolved" => IsTerminal(loops[l].result.status)
    /\ loops[l].sawFailed
         => (loops[l].at = "resolved" /\ loops[l].result.status = "failed")

\* C20: a poll issues at most maxAttempts queries; it times out only after
\* exactly maxAttempts queries none of which showed a terminal status, and a
\* terminal last snapshot resolves instead.
C20_TimeoutAfterMaxAttempts ==
  \A l \in DOMAIN loops :
    /\ loops[l].attempts <= maxAttempts
    /\ loops[l].at = "timer" => loops[l].attempts < maxAttempts
    /\ loops[l].at = "timeout"
         => (loops[l].attempts = maxAttempts /\ ~loops[l].sawFailed)

\* C21: a deleteDocument that returns true, with no run of the id in flight,
\* has removed the record and its stored blob; one that returns false
\* changes nothing.
C21_DeleteRemoves ==
  [][\A d \in Ids :
       /\ (del[d] = "deleteDoc" /\ deleted'[d] = "true" /\ pc[d] = "idle")
            => (~db'[d].exists /\ ~storage'[d])
       /\ (deleted[d] # "false" /\ deleted'[d] = "false")
            => (~db[d].exists /\ db' = db /\ storage' = storage)]_vars

\* The step in which createDocument is called directly.
CreateCalled(d) == creates'[d] > creates[d]

\* C22: createDocument for an id that already has a record does not succeed
\* and leaves the existing record unchanged.
C22_CreateExistingFails ==
  [][\A d \in Ids :
       (CreateCalled(d) /\ db[d].exists)
         => (createReturn'[d].outcome # "ok" /\ db'[d] = db[d])]_vars

\* C23: every record createDocument produces has status pending and
\* progress 0 whatever the caller supplied; a store error during creation
\* writes nothing and queues no task, and uploadDocument ends there.
C23_CreatedPending ==
  [][\A d \in Ids :
       /\ (\/ CreateCalled(d) /\ createReturn'[d].outcome = "ok"
           \/ upload[d] = "none" /\ upload'[d] = "created")
            => (/\ db'[d].exists
                /\ db'[d].processingStatus = "pending"
                /\ db'[d].processingProgress = 0)
       /\ (\/ CreateCalled(d) /\ createReturn'[d].outcome = "error"
           \/ upload[d] = "none" /\ upload'[d] = "failed")
            => (db' = db /\ processingQueue' = processingQueue /\ inFlight' = inFlight)
       /\ upload[d] = "failed" => upload'[d] = "failed"]_vars

\* C23 witness: createDocument was given status completed and progress 50
\* and has returned; the record is pending with progress 0.
C23_Witness ==
  \E d \in Ids :
    /\ createReturn[d].outcome = "ok"
    /\ createReturn[d].documentData.processingStatus = "completed"
    /\ createReturn[d].documentData.processingProgress = 50
    /\ runs[d] = 0
    /\ db[d].exists
    /\ db[d].processingStatus = "pending"
    /\ db[d].processingProgress = 0

\* The progress arguments a caller may pass to updateProcessingStatus.
ProgressArgs == {NoProgress, 0, 50, 100}

\* C24: in every reachable state a completed record has progress 100, and
\* updateProcessingStatus with status completed, applied to the stored
\* record with any progress argument, gives progress 100.
C24_CompletedIsHundred ==
  \A d \in Ids :
    db[d].exists =>
      /\ Status(d) = "completed" => db[d].processingProgress = 100
      /\ \A progress \in ProgressArgs :
           updateProcessingStatus(db[d], "completed", progress, Null).processingProgress = 100
      /\ storeAnalysisResults(db[d], GeminiAnalysis).processingProgress = 100

\* C24 witness: a record below 100 was completed by the write of step 7.
C24_Witness ==
  \E d \in Ids :
    /\ db[d].exists
    /\ Status(d) = "completed"
    /\ db[d].processingProgress = 100
    /\ usedFallback[d]
    /\ pc[d] = "idle"
    /\ terminalWrites[d] = 2

\* C25: a write that makes the record failed, or replaces the error of a
\* failed record, changes only the status and the error: progress, result
\* and the other fields keep their values.
C25_FailedFrame ==
  [][\A d \in Ids :
       (/\ db[d].exists /\ db'[d].exists
        /\ db'[d].processingStatus = "failed"
        /\ \/ db[d].processingStatus # "failed"
           \/ db'[d].processingError # db[d].processingError)
         => (/\ db'[d].processingProgress = db[d].processingProgress
             /\ db'[d].results = db[d].results
             /\ db'[d].gsUrl = db[d].gsUrl
             /\ db'[d].processingError # Null)]_vars

\* C25 witness: a run failed after its result was stored; the record is
\* failed with the error, the result and progress 100 still on it.
C25_Witness ==
  \E d \in Ids :
    /\ db[d].exists
    /\ Status(d) = "failed"
    /\ db[d].processingError # Null
    /\ db[d].results.present
    /\ db[d].processingProgress = 100

\* C26: when the processDocument task of an id starts, the record exists
\* with status processing; no step of the task runs while the stored status
\* is pending, and a task runs only for an id whose record was created.
C26_ProcessingBeforeTask ==
  [][\A d \in Ids :
       /\ (pc[d] = "update0" /\ pc'[d] = "update10")
            => (db'[d].exists /\ db'[d].processingStatus = "processing")
       /\ (pc[d] \notin {"idle", "update0"} /\ pc'[d] # pc[d])
            => (/\ upload[d] \in {"created", "done"}
                /\ db[d].exists => db[d].processingStatus # "pending")]_vars

\* C26 witness: the task has just started; the record is processing with
\* progress 0.
C26_Witness ==
  \E d \in Ids :
    /\ pc[d] = "update10"
    /\ db[d].exists
    /\ Status(d) = "processing"
    /\ db[d].processingProgress = 0

\* C27: getResults answers 200 with the payload only for a completed
\* record, 202 without payload for pending and processing, 400 with the
\* stored error for failed, and never answers 500 because of what a running
\* orchestrator wrote (only a store error gives 500).
C27_ResultsEndpoint ==
  \A d \in Ids :
    LET r == resultsReq[d]
    IN  /\ r.payload.present => r.code = 200
        /\ r.code = 200 => r.body = "completed"
        /\ r.code = 202 => (r.body \in {"pending", "processing"} /\ ~r.payload.present)
        /\ r.code = 400 => r.body # Null
        /\ r.code = 500 => r.thrown = StoreError

\* A pending status write of an earlier run of the id is applied to the
\* record.
StaleWriteLands(d) ==
  \E w \in pendingWrites[d] \ pendingWrites'[d] : w.run < runs[d] /\ db'[d] # db[d]

\* C28: no status write of a run is still pending once its queue entry is
\* removed, so that no failed write of an earlier run lands on the record
\* after a re-submission of the id has set the status processing.
C28_NoStaleWrite ==
  [][\A d \in Ids :
       (/\ StaleWriteLands(d)
        /\ pc[d] \notin {"idle", "update0"}
        /\ Status(d) = "processing")
         => (d \notin processingQueue \/ Status(d)' = "processing")]_vars

\* The last run of the id settles after deleteDocument returned true while
\* it was in flight.
SettlesAfterDelete(d) ==
  /\ RunSettles(d)
  /\ inFlight'[d] = 0
  /\ deleted[d] = "true"
  /\ del[d] = "idle"

\* C29: when deleteDocument returned true during a run, then after the run
\* has settled the record is absent, the queue entry is removed and no blob
\* of the id is left in storage.
C29_DeleteDuringRun ==
  [][\A d \in Ids :
       SettlesAfterDelete(d)
         => (/\ ~db'[d].exists
             /\ d \notin processingQueue'
             /\ ~storage'[d])]_vars

\* C30: when a status query fails the loop rejects at once: onUpdate is not
\* called for the query, no retry and no further query follow, and the hook
\* has isPolling false and the error message set with the last observed
\* status unchanged.
C30_FailedQueryRejects ==
  [][\A l \in DOMAIN loops :
       /\ (loops[l].at = "query" /\ loops'[l].at = "error")
            => (/\ loops'[l].updates = loops[l].updates
                /\ loops'[l].attempts = loops[l].attempts
                /\ ~hookState'.isPolling
                /\ hookState'.error = RequestFailed
                /\ hookState'.status = hookState.status)
       /\ loops[l].at = "error"
            => (/\ loops'[l].at = "error"
                /\ loops'[l].updates = loops[l].updates
                /\ loops'[l].attempts = loops[l].attempts)]_vars

\* C30 witness: a loop rejected by a failed query after it had reported a
\* status, and the hook shows the error with that status and not polling.
C30_Witness ==
  \E l \in DOMAIN loops :
    /\ loops[l].at = "error"
    /\ loops[l].updates >= 1
    /\ loops[l].attempts = loops[l].updates + 1
    /\ hookState.status # NoStatus
    /\ hookState.error = RequestFailed
    /\ ~hookState.isPolling

====
